---- MODULE Spec2Model ----
(***************************************************************************)
(* Model of the action-item extractor (week2/app) and of the prompt test   *)
(* of week1/k_shot_prompting.py:                                           *)
(*   Spec      the heuristic extractor extract_action_items,               *)
(*   SpecLLM   the model-backed extractor extract_action_items_llm,        *)
(*   SpecAPI   the routes of the service over the persistence layer,       *)
(*   SpecDb    db.insert_action_items called on its own,                   *)
(*   SpecKShot test_your_prompt.                                           *)
(* Each specification pins the variables of the others.                    *)
(*                                                                         *)
(* A Python str is a sequence of one-character strings.  The whitespace    *)
(* characters of the model are the space and the line feed; the letters    *)
(* are ASCII.                                                              *)
(***************************************************************************)
EXTENDS Integers, Sequences, FiniteSets, TLC

VARIABLES
  text,          \* extract_action_items: the argument
  pc,            \* extract_action_items: position in the function
  extracted,     \* extract_action_items: the list `extracted`
  usedFallback,  \* extract_action_items: whether the body of `if not extracted` ran
  result,        \* extract_action_items: the returned list `unique`
  llm_text,      \* extract_action_items_llm: the argument
  llm_pc,        \* extract_action_items_llm: position in the function
  chat_calls,    \* extract_action_items_llm: the number of calls of chat
  response,      \* extract_action_items_llm: the variable `response`
  exc,           \* extract_action_items_llm: the last exception raised
  llm_result,    \* extract_action_items_llm: the returned list
  llm_outcome,   \* extract_action_items_llm: "returned", or "raised" to the caller
  db,            \* the service: the database
  api_request,   \* the service: the last request
  api_response,  \* the service: the response to the last request
  k_pc,          \* test_your_prompt: position in the function
  idx,           \* test_your_prompt: the number of calls of chat
  outputs,       \* test_your_prompt: the contents of the responses of chat
  returned       \* test_your_prompt: "True", "False", or "raised" to the caller

xvars == <<text, pc, extracted, usedFallback, result>>

lvars == <<llm_text, llm_pc, chat_calls, response, exc, llm_result, llm_outcome>>

avars == <<db, api_request, api_response>>

kvars == <<k_pc, idx, outputs, returned>>

vars == <<xvars, lvars, avars, kvars>>

(***************************************************************************)
(* Bounds of the model.                                                    *)
(***************************************************************************)
MaxTokens == 4

MaxItems == 2

\* the service: the largest number of notes and of action items stored
MaxNotes == 1

MaxRows == 2

\* the longest list handed to insert_action_items in a direct call
MaxInsert == 2

(***************************************************************************)
(* Python str primitives.                                                  *)
(***************************************************************************)
Whitespace == {" ", "\n"}

Digits == {"0", "1", "2", "3", "4", "5", "6", "7", "8", "9"}

UpperLetters ==
  <<"A","B","C","D","E","F","G","H","I","J","K","L","M",
    "N","O","P","Q","R","S","T","U","V","W","X","Y","Z">>

LowerLetters ==
  <<"a","b","c","d","e","f","g","h","i","j","k","l","m",
    "n","o","p","q","r","s","t","u","v","w","x","y","z">>

Letters == {UpperLetters[i] : i \in 1..26} \cup {LowerLetters[i] : i \in 1..26}

LowerChar(c) ==
  IF \E i \in 1..26 : UpperLetters[i] = c
  THEN LowerLetters[CHOOSE i \in 1..26 : UpperLetters[i] = c]
  ELSE c

\* str.lower()
lower(s) == [i \in 1..Len(s) |-> LowerChar(s[i])]

Min(S) == CHOOSE x \in S : \A y \in S : x <= y

\* the number of consecutive characters of s, from position p on, that are in S
RECURSIVE SpanLen(_, _, _)
SpanLen(s, p, S) ==
  IF p >= 1 /\ p <= Len(s) /\ s[p] \in S THEN 1 + SpanLen(s, p + 1, S) ELSE 0

\* the number of consecutive characters of s, from position p backwards, in S
RECURSIVE SpanLenBack(_, _, _)
SpanLenBack(s, p, S) ==
  IF p >= 1 /\ p <= Len(s) /\ s[p] \in S THEN 1 + SpanLenBack(s, p - 1, S) ELSE 0

\* str.strip()
strip(s) ==
  LET a == SpanLen(s, 1, Whitespace)
      b == IF a = Len(s) THEN 0 ELSE SpanLenBack(s, Len(s), Whitespace)
  IN SubSeq(s, a + 1, Len(s) - b)

\* str.startswith(p)
startswith(s, p) == Len(p) <= Len(s) /\ SubSeq(s, 1, Len(p)) = p

\* str.removeprefix(p)
removeprefix(s, p) == IF startswith(s, p) THEN SubSeq(s, Len(p) + 1, Len(s)) ELSE s

\* p in s
contains(s, p) ==
  \E i \in 1..(Len(s) - Len(p) + 1) : SubSeq(s, i, i + Len(p) - 1) = p

\* str.splitlines(): no last empty line after a final line break
RECURSIVE splitlines(_)
splitlines(s) ==
  LET nl == {i \in 1..Len(s) : s[i] = "\n"}
  IN IF s = <<>> THEN <<>>
     ELSE IF nl = {} THEN <<s>>
     ELSE <<SubSeq(s, 1, Min(nl) - 1)>> \o splitlines(SubSeq(s, Min(nl) + 1, Len(s)))

(***************************************************************************)
(* The line classifier and the cleaner.                                    *)
(***************************************************************************)
\* the character class [-*...] of BULLET_PREFIX_PATTERN: the source file holds
\* the bullet glyph as the three characters U+00E2, U+20AC, U+00A2
BulletChars == {"-", "*", "U+00E2", "U+20AC", "U+00A2"}

KEYWORD_PREFIXES ==
  << <<"t","o","d","o",":">>, <<"a","c","t","i","o","n",":">>, <<"n","e","x","t",":">> >>

CheckboxToken == <<"[", " ", "]">>

TodoToken == <<"[", "t", "o", "d", "o", "]">>

\* BULLET_PREFIX_PATTERN without the alternative \d+\.
BULLET_PREFIX_PATTERN_bullets_only(s) ==
  LET a == SpanLen(s, 1, Whitespace)
      p == a + 1
      m == IF p <= Len(s) /\ s[p] \in BulletChars THEN p + 1 ELSE 0
      w == IF m = 0 THEN 0 ELSE SpanLen(s, m, Whitespace)
  IN IF m = 0 \/ w = 0 THEN 0 ELSE m + w - 1

\* BULLET_PREFIX_PATTERN.match(s), r"^\s*([-*...]|\d+\.)\s+": the length of the
\* match, 0 when there is none (a match holds at least two characters)
BULLET_PREFIX_PATTERN(s) ==
  LET a == SpanLen(s, 1, Whitespace)
      p == a + 1
      d == SpanLen(s, p, Digits)
      m == IF p <= Len(s) /\ s[p] \in BulletChars THEN p + 1
           ELSE IF d > 0 /\ p + d <= Len(s) /\ s[p + d] = "." THEN p + d + 1
           ELSE 0
      w == IF m = 0 THEN 0 ELSE SpanLen(s, m, Whitespace)
  IN IF m = 0 \/ w = 0 THEN 0 ELSE m + w - 1

\* BULLET_PREFIX_PATTERN.sub("", s): the pattern is anchored, so at most the
\* one match at the start is removed
bullet_sub(s) == SubSeq(s, BULLET_PREFIX_PATTERN(s) + 1, Len(s))

is_action_line(line) ==
  LET stripped == lower(strip(line))
  IN IF stripped = <<>> THEN FALSE
     ELSE IF BULLET_PREFIX_PATTERN(stripped) > 0 THEN TRUE
     ELSE IF \E k \in 1..Len(KEYWORD_PREFIXES) : startswith(stripped, KEYWORD_PREFIXES[k])
       THEN TRUE
     ELSE IF contains(stripped, CheckboxToken) \/ contains(stripped, TodoToken) THEN TRUE
     ELSE FALSE

\* clean_line with the keyword prefix removed as well
clean_line_drops_keyword(line) ==
  LET c1 == strip(bullet_sub(line))
      c2 == strip(removeprefix(c1, CheckboxToken))
      c3 == strip(removeprefix(c2, TodoToken))
      ks == {k \in 1..Len(KEYWORD_PREFIXES) : startswith(lower(c3), KEYWORD_PREFIXES[k])}
  IN IF ks = {} THEN c3
     ELSE strip(SubSeq(c3, Len(KEYWORD_PREFIXES[Min(ks)]) + 1, Len(c3)))

\* clean_line with "[todo]" removed in any case
clean_line_ignoring_case(line) ==
  LET c1 == strip(bullet_sub(line))
      c2 == strip(removeprefix(c1, CheckboxToken))
  IN IF startswith(lower(c2), TodoToken) THEN strip(SubSeq(c2, Len(TodoToken) + 1, Len(c2)))
     ELSE c2

\* extract_action_items, the body of `if _is_action_line(line)`
clean_line(line) ==
  LET c1 == strip(bullet_sub(line))
      c2 == strip(removeprefix(c1, CheckboxToken))
  IN strip(removeprefix(c2, TodoToken))

\* extract_action_items, the loop over the lines
RECURSIVE line_pass(_)
line_pass(lines) ==
  IF lines = <<>> THEN <<>>
  ELSE LET line == strip(Head(lines))
       IN (IF line # <<>> /\ is_action_line(line) THEN <<clean_line(line)>> ELSE <<>>)
          \o line_pass(Tail(lines))

(***************************************************************************)
(* The sentence fallback.                                                  *)
(***************************************************************************)
SentenceEnd == {".", "!", "?"}

WordChars == Letters \cup {"'"}

imperative_starters ==
  { <<"a","d","d">>, <<"c","r","e","a","t","e">>,
    <<"i","m","p","l","e","m","e","n","t">>, <<"f","i","x">>,
    <<"u","p","d","a","t","e">>, <<"w","r","i","t","e">>, <<"c","h","e","c","k">>,
    <<"v","e","r","i","f","y">>, <<"r","e","f","a","c","t","o","r">>,
    <<"d","o","c","u","m","e","n","t">>, <<"d","e","s","i","g","n">>,
    <<"i","n","v","e","s","t","i","g","a","t","e">> }

\* re.split(r"(?<=[.!?])\s+", s): s is cut at every run of whitespace that
\* follows a sentence end, and the run is dropped
RECURSIVE split_sentences(_)
split_sentences(s) ==
  LET cuts == {i \in 2..Len(s) : s[i] \in Whitespace /\ s[i - 1] \in SentenceEnd}
  IN IF cuts = {} THEN <<s>>
     ELSE LET i == Min(cuts)
              w == SpanLen(s, i, Whitespace)
          IN <<SubSeq(s, 1, i - 1)>> \o split_sentences(SubSeq(s, i + w, Len(s)))

\* re.findall(r"[A-Za-z']+", sentence)[0], <<>> when there is no word
first_word(sentence) ==
  LET at == {i \in 1..Len(sentence) : sentence[i] \in WordChars}
  IN IF at = {} THEN <<>>
     ELSE SubSeq(sentence, Min(at), Min(at) + SpanLen(sentence, Min(at), WordChars) - 1)

\* re.findall(r"[A-Za-z']+", sentence)
RECURSIVE all_words(_)
all_words(sentence) ==
  LET first == first_word(sentence)
      at == {i \in 1..Len(sentence) : sentence[i] \in WordChars}
  IN IF first = <<>> THEN <<>>
     ELSE <<first>> \o all_words(SubSeq(sentence, Min(at) + Len(first), Len(sentence)))

\* looks_imperative testing every word of the sentence, not the first
looks_imperative_any_word(sentence) ==
  \E i \in 1..Len(all_words(sentence)) : lower(all_words(sentence)[i]) \in imperative_starters

looks_imperative(sentence) ==
  LET first == first_word(sentence)
  IN IF first = <<>> THEN FALSE ELSE lower(first) \in imperative_starters

\* the loop over the sentences keeping every sentence
sentence_pass_keep_all(sentences) == [i \in 1..Len(sentences) |-> strip(sentences[i])]

\* extract_action_items, the loop over the sentences
RECURSIVE sentence_pass(_)
sentence_pass(sentences) ==
  IF sentences = <<>> THEN <<>>
  ELSE LET s == strip(Head(sentences))
       IN (IF s # <<>> /\ looks_imperative(s) THEN <<s>> ELSE <<>>)
          \o sentence_pass(Tail(sentences))

(***************************************************************************)
(* The deduplicator.                                                       *)
(***************************************************************************)
\* extract_action_items, the loop over `extracted` with the set `seen`
RECURSIVE dedup_from(_, _)
dedup_from(items, seen) ==
  IF items = <<>> THEN <<>>
  ELSE LET item == Head(items)
           lowered == lower(item)
       IN IF lowered \in seen THEN dedup_from(Tail(items), seen)
          ELSE <<item>> \o dedup_from(Tail(items), seen \cup {lowered})

\* the loop over `extracted` with `seen` holding the items as they are
RECURSIVE dedup_case_sensitive_from(_, _)
dedup_case_sensitive_from(items, seen) ==
  IF items = <<>> THEN <<>>
  ELSE IF Head(items) \in seen THEN dedup_case_sensitive_from(Tail(items), seen)
  ELSE <<Head(items)>> \o dedup_case_sensitive_from(Tail(items), seen \cup {Head(items)})

dedup_case_sensitive(items) == dedup_case_sensitive_from(items, {})

deduplicate(items) == dedup_from(items, {})

(***************************************************************************)
(* The inputs: the texts of the documented scenarios, two texts that mix   *)
(* the cases, and every concatenation of at most MaxTokens tokens.         *)
(***************************************************************************)
\* '- [ ] Set up database\n* implement API extract endpoint\n1. Write tests\nSome narrative sentence.'
Scenario1Text ==
  <<"-"," ","["," ","]"," ","S","e","t"," ","u","p"," ","d","a","t","a","b","a","s","e",
    "\n","*"," ","i","m","p","l","e","m","e","n","t"," ","A","P","I"," ","e","x","t","r",
    "a","c","t"," ","e","n","d","p","o","i","n","t","\n","1","."," ","W","r","i","t","e",
    " ","t","e","s","t","s","\n","S","o","m","e"," ","n","a","r","r","a","t","i","v","e",
    " ","s","e","n","t","e","n","c","e",".">>

\* 'TODO: Review the code\nACTION: Deploy to production\nNEXT: Update documentation'
Scenario2Text ==
  <<"T","O","D","O",":"," ","R","e","v","i","e","w"," ","t","h","e"," ","c","o","d","e",
    "\n","A","C","T","I","O","N",":"," ","D","e","p","l","o","y"," ","t","o"," ","p","r",
    "o","d","u","c","t","i","o","n","\n","N","E","X","T",":"," ","U","p","d","a","t","e",
    " ","d","o","c","u","m","e","n","t","a","t","i","o","n">>

\* 'We need to create a new feature.\nPlease implement the login page.\nThis is just narration.'
Scenario3Text ==
  <<"W","e"," ","n","e","e","d"," ","t","o"," ","c","r","e","a","t","e"," ","a"," ","n","e",
    "w"," ","f","e","a","t","u","r","e",".","\n","P","l","e","a","s","e"," ","i","m","p",
    "l","e","m","e","n","t"," ","t","h","e"," ","l","o","g","i","n"," ","p","a","g","e",".",
    "\n","T","h","i","s"," ","i","s"," ","j","u","s","t"," ","n","a","r","r","a","t","i",
    "o","n",".">>

\* '- [ ] task one\n- [ ] task one'
Scenario4Text ==
  <<"-"," ","["," ","]"," ","t","a","s","k"," ","o","n","e","\n","-"," ","["," ","]"," ",
    "t","a","s","k"," ","o","n","e">>

\* '* Fix it\n- fix it\n2. FIX IT\n[TODO] ship\nnext: fix it'
MixedCaseText ==
  <<"*"," ","F","i","x"," ","i","t","\n","-"," ","f","i","x"," ","i","t","\n","2","."," ",
    "F","I","X"," ","I","T","\n","[","T","O","D","O","]"," ","s","h","i","p","\n","n","e",
    "x","t",":"," ","f","i","x"," ","i","t">>

\* "Fix the bug. It works!  fix the bug.\nUpdate docs? 'Add' tests. FIX THE BUG."
FallbackText ==
  <<"F","i","x"," ","t","h","e"," ","b","u","g","."," ","I","t"," ","w","o","r","k","s","!",
    " "," ","f","i","x"," ","t","h","e"," ","b","u","g",".","\n","U","p","d","a","t","e",
    " ","d","o","c","s","?"," ","'","A","d","d","'"," ","t","e","s","t","s","."," ","F","I",
    "X"," ","T","H","E"," ","B","U","G",".">>

SampleTexts ==
  {Scenario1Text, Scenario2Text, Scenario3Text, Scenario4Text, MixedCaseText, FallbackText}

Tokens ==
  { <<"-">>, <<"1">>, <<".">>, <<" ">>, <<"\n">>, CheckboxToken, TodoToken,
    <<"[","T","O","D","O","]">>, <<"t","o","d","o",":">>,
    <<"F","i","x">>, <<"f","i","x">>, <<"i","t">> }

RECURSIVE Concat(_)
Concat(ts) == IF ts = <<>> THEN <<>> ELSE Head(ts) \o Concat(Tail(ts))

Inputs ==
  SampleTexts \cup {Concat(ts) : ts \in UNION {[1..k -> Tokens] : k \in 0..MaxTokens}}

(***************************************************************************)
(* extract_action_items_llm: Python values.                                *)
(*                                                                         *)
(* A value of json.loads is a record: t is its type, s the characters of a *)
(* str, n the number of an int (1 and 0 for True and False), xs the        *)
(* elements of a list or the key/value pairs of a dict.                    *)
(***************************************************************************)
JStr(s) == [t |-> "str", s |-> s, n |-> 0, xs |-> <<>>]

JNum(n) == [t |-> "num", s |-> <<>>, n |-> n, xs |-> <<>>]

JBool(b) == [t |-> "bool", s |-> <<>>, n |-> IF b THEN 1 ELSE 0, xs |-> <<>>]

JNull == [t |-> "null", s |-> <<>>, n |-> 0, xs |-> <<>>]

JList(xs) == [t |-> "list", s |-> <<>>, n |-> 0, xs |-> xs]

JDict(pairs) == [t |-> "dict", s |-> <<>>, n |-> 0, xs |-> pairs]

Pair(k, v) == [key |-> k, val |-> v]

\* bool(v)
truthy(v) ==
  CASE v.t = "str" -> v.s # <<>>
    [] v.t = "num" -> v.n # 0
    [] v.t = "bool" -> v.n = 1
    [] v.t = "null" -> FALSE
    [] OTHER -> v.xs # <<>>

DigitChars == <<"0", "1", "2", "3", "4", "5", "6", "7", "8", "9">>

\* str(n) of a natural number
RECURSIVE digits_of(_)
digits_of(n) ==
  IF n < 10 THEN <<DigitChars[n + 1]>> ELSE digits_of(n \div 10) \o <<DigitChars[(n % 10) + 1]>>

\* repr(v); the strings of the model hold neither quotes nor backslashes
RECURSIVE py_repr(_), py_repr_join(_, _)
py_repr(v) ==
  CASE v.t = "str" -> <<"'">> \o v.s \o <<"'">>
    [] v.t = "num" -> digits_of(v.n)
    [] v.t = "bool" -> IF v.n = 1 THEN <<"T","r","u","e">> ELSE <<"F","a","l","s","e">>
    [] v.t = "null" -> <<"N","o","n","e">>
    [] v.t = "list" -> <<"[">> \o py_repr_join(v.xs, FALSE) \o <<"]">>
    [] OTHER -> <<"{">> \o py_repr_join(v.xs, TRUE) \o <<"}">>

py_repr_join(xs, pairs) ==
  IF xs = <<>> THEN <<>>
  ELSE (IF pairs
        THEN <<"'">> \o Head(xs).key \o <<"'", ":", " ">> \o py_repr(Head(xs).val)
        ELSE py_repr(Head(xs)))
       \o (IF Len(xs) > 1 THEN <<",", " ">> ELSE <<>>)
       \o py_repr_join(Tail(xs), pairs)

\* str(v)
py_str(v) == IF v.t = "str" THEN v.s ELSE py_repr(v)

(***************************************************************************)
(* json.loads on the characters of the model: strings without escapes,     *)
(* natural numbers, null, true, false, arrays and objects.                 *)
(***************************************************************************)
JsonWhitespace == {" ", "\n"}

Fail == [ok |-> FALSE, val |-> JNull, pos |-> 0]

Ok(v, p) == [ok |-> TRUE, val |-> v, pos |-> p]

skip_ws(s, p) == p + SpanLen(s, p, JsonWhitespace)

starts_at(s, p, lit) == p + Len(lit) - 1 <= Len(s) /\ SubSeq(s, p, p + Len(lit) - 1) = lit

\* a string literal at p: up to the next quote, no line break inside
scan_string(s, p) ==
  LET quotes == {i \in (p + 1)..Len(s) : s[i] = "\""}
  IN IF quotes = {} THEN Fail
     ELSE IF \E i \in (p + 1)..(Min(quotes) - 1) : s[i] = "\n" THEN Fail
     ELSE Ok(JStr(SubSeq(s, p + 1, Min(quotes) - 1)), Min(quotes) + 1)

RECURSIVE number_of(_)
number_of(ds) ==
  IF ds = <<>> THEN 0
  ELSE 10 * number_of(SubSeq(ds, 1, Len(ds) - 1))
       + ((CHOOSE i \in 1..10 : DigitChars[i] = ds[Len(ds)]) - 1)

\* a number at p: 0, or digits that do not start with 0
scan_number(s, p) ==
  LET d == IF s[p] = "0" THEN 1 ELSE SpanLen(s, p, Digits)
  IN Ok(JNum(number_of(SubSeq(s, p, p + d - 1))), p + d)

RECURSIVE scan_value(_, _), scan_elements(_, _, _), scan_members(_, _, _)
scan_value(s, p) ==
  IF p > Len(s) THEN Fail
  ELSE IF s[p] = "\"" THEN scan_string(s, p)
  ELSE IF s[p] \in Digits THEN scan_number(s, p)
  ELSE IF starts_at(s, p, <<"n","u","l","l">>) THEN Ok(JNull, p + 4)
  ELSE IF starts_at(s, p, <<"t","r","u","e">>) THEN Ok(JBool(TRUE), p + 4)
  ELSE IF starts_at(s, p, <<"f","a","l","s","e">>) THEN Ok(JBool(FALSE), p + 5)
  ELSE IF s[p] = "[" THEN
    LET q == skip_ws(s, p + 1)
    IN IF q <= Len(s) /\ s[q] = "]" THEN Ok(JList(<<>>), q + 1)
       ELSE scan_elements(s, q, <<>>)
  ELSE IF s[p] = "{" THEN
    LET q == skip_ws(s, p + 1)
    IN IF q <= Len(s) /\ s[q] = "}" THEN Ok(JDict(<<>>), q + 1)
       ELSE scan_members(s, q, <<>>)
  ELSE Fail

\* the elements of an array from p on, after the elements acc
scan_elements(s, p, acc) ==
  LET r == scan_value(s, p)
      e == skip_ws(s, r.pos)
  IN IF ~r.ok \/ e > Len(s) THEN Fail
     ELSE IF s[e] = "," THEN scan_elements(s, skip_ws(s, e + 1), Append(acc, r.val))
     ELSE IF s[e] = "]" THEN Ok(JList(Append(acc, r.val)), e + 1)
     ELSE Fail

\* the members of an object from p on, after the members acc
scan_members(s, p, acc) ==
  LET k == IF p <= Len(s) /\ s[p] = "\"" THEN scan_string(s, p) ELSE Fail
      c == skip_ws(s, k.pos)
      r == IF k.ok /\ c <= Len(s) /\ s[c] = ":" THEN scan_value(s, skip_ws(s, c + 1)) ELSE Fail
      e == skip_ws(s, r.pos)
  IN IF ~r.ok \/ e > Len(s) THEN Fail
     ELSE IF s[e] = "," THEN scan_members(s, skip_ws(s, e + 1), Append(acc, Pair(k.val.s, r.val)))
     ELSE IF s[e] = "}" THEN Ok(JDict(Append(acc, Pair(k.val.s, r.val))), e + 1)
     ELSE Fail

\* json.loads(s): ok is FALSE for a JSONDecodeError
json_loads(s) ==
  LET r == scan_value(s, skip_ws(s, 1))
  IN IF r.ok /\ skip_ws(s, r.pos) = Len(s) + 1 THEN r ELSE Fail

\* dict.get(key, default): of two members with the key the last one counts
dict_get(d, key, default) ==
  LET at == {i \in 1..Len(d.xs) : d.xs[i].key = key}
  IN IF at = {} THEN default ELSE d.xs[CHOOSE i \in at : \A j \in at : j <= i].val

(***************************************************************************)
(* extract_action_items_llm: the steps of the function.                    *)
(***************************************************************************)
\* str.split("\n")
RECURSIVE split_newline(_)
split_newline(s) ==
  LET nl == {i \in 1..Len(s) : s[i] = "\n"}
  IN IF nl = {} THEN <<s>>
     ELSE <<SubSeq(s, 1, Min(nl) - 1)>> \o split_newline(SubSeq(s, Min(nl) + 1, Len(s)))

\* "\n".join(lines)
RECURSIVE join_newline(_)
join_newline(lines) ==
  IF lines = <<>> THEN <<>>
  ELSE IF Len(lines) = 1 THEN lines[1]
  ELSE lines[1] \o <<"\n">> \o join_newline(Tail(lines))

\* the backquote is written U+0060
Fence == <<"U+0060", "U+0060", "U+0060">>

Hash == <<"#">>

FALLBACK_LIMIT == 10

\* items[:n]
first_n(items, n) == SubSeq(items, 1, IF Len(items) < n THEN Len(items) ELSE n)

\* the guard of the first return, with `not text` alone
is_empty_input_unstripped(t) == t = <<>>

\* if not text or not text.strip()
is_empty_input(t) == t = <<>> \/ strip(t) = <<>>

\* the response of chat: `some` is FALSE for None, has_message for a message
\* that is not None, has_content for a content that is not None
NoResponse == [some |-> FALSE, has_message |-> FALSE, has_content |-> FALSE, content |-> <<>>]

Response(c) == [some |-> TRUE, has_message |-> TRUE, has_content |-> TRUE, content |-> c]

ResponseNoMessage ==
  [some |-> TRUE, has_message |-> FALSE, has_content |-> FALSE, content |-> <<>>]

ResponseNoContent ==
  [some |-> TRUE, has_message |-> TRUE, has_content |-> FALSE, content |-> <<>>]

\* the removal of the lines of a markdown code fence
strip_code_fence(content) ==
  IF startswith(content, Fence)
  THEN LET not_fence(line) == ~startswith(strip(line), Fence)
       IN join_newline(SelectSeq(split_newline(content), not_fence))
  ELSE content

\* [str(item).strip() for item in action_items if item]
RECURSIVE items_of(_)
items_of(xs) ==
  IF xs = <<>> THEN <<>>
  ELSE (IF truthy(Head(xs)) THEN <<strip(py_str(Head(xs)))>> ELSE <<>>) \o items_of(Tail(xs))

Raise(e) == [exc |-> e, value |-> <<>>]

Returned(v) == [exc |-> "none", value |-> v]

ActionItemsKey == <<"a","c","t","i","o","n","_","i","t","e","m","s">>

\* the body of try after chat has returned: what it raises or returns
try_body(r) ==
  IF ~r.has_message \/ ~r.has_content THEN Raise("AttributeError")
  ELSE LET content == strip_code_fence(strip(r.content))
           parsed == json_loads(content)
       IN IF ~parsed.ok THEN Raise("JSONDecodeError")
          ELSE IF parsed.val.t # "dict" THEN Raise("AttributeError")
          ELSE LET action_items == dict_get(parsed.val, ActionItemsKey, JList(<<>>))
               IN IF action_items.t = "list" THEN Returned(items_of(action_items.xs))
                  ELSE Returned(<<>>)

\* the lines kept by the fallback, without the limit
fallback_lines(content) ==
  LET kept(line) == strip(line) # <<>> /\ ~startswith(strip(line), Hash)
      lines == SelectSeq(split_newline(content), kept)
  IN [i \in 1..Len(lines) |-> strip(lines[i])]

\* the first except clause without `items[:10]`
fallback_items_unlimited(r) ==
  IF r.some /\ r.has_message /\ r.has_content THEN fallback_lines(r.content) ELSE <<>>

\* the body of the first except clause: content.split raises on None, which
\* the inner try swallows
fallback_items(r) ==
  IF r.some /\ r.has_message
  THEN IF ~r.has_content THEN <<>>
       ELSE first_n(fallback_lines(r.content), FALLBACK_LIMIT)
  ELSE <<>>

\* except (json.JSONDecodeError, KeyError, AttributeError)
first_clause_catches(e) == e \in {"JSONDecodeError", "KeyError", "AttributeError"}

\* a second clause that names the connection error only
second_clause_catches_connection_only(e) == e = "ConnectionError"

\* except Exception: every error of the model is an Exception
second_clause_catches(e) ==
  e \in {"JSONDecodeError", "KeyError", "AttributeError", "ConnectionError", "ResponseError"}

(***************************************************************************)
(* What the model client may do: raise, or return a response whose message *)
(* or content is None, or whose content is a text: a JSON document of      *)
(* every shape with at most MaxItems action items, such a document inside  *)
(* a code fence or cut short, or plain text.                               *)
(***************************************************************************)
\* json.dumps(v)
RECURSIVE json_dumps(_), json_dumps_join(_, _)
json_dumps(v) ==
  CASE v.t = "str" -> <<"\"">> \o v.s \o <<"\"">>
    [] v.t = "num" -> digits_of(v.n)
    [] v.t = "bool" -> IF v.n = 1 THEN <<"t","r","u","e">> ELSE <<"f","a","l","s","e">>
    [] v.t = "null" -> <<"n","u","l","l">>
    [] v.t = "list" -> <<"[">> \o json_dumps_join(v.xs, FALSE) \o <<"]">>
    [] OTHER -> <<"{">> \o json_dumps_join(v.xs, TRUE) \o <<"}">>

json_dumps_join(xs, pairs) ==
  IF xs = <<>> THEN <<>>
  ELSE (IF pairs
        THEN <<"\"">> \o Head(xs).key \o <<"\"", ":", " ">> \o json_dumps(Head(xs).val)
        ELSE json_dumps(Head(xs)))
       \o (IF Len(xs) > 1 THEN <<",", " ">> ELSE <<>>)
       \o json_dumps_join(Tail(xs), pairs)

FixIt == <<"F","i","x"," ","i","t">>

ItemValues ==
  { JStr(FixIt), JStr(<<" ","s","h","i","p"," ","i","t"," ">>), JStr(<<" ">>), JStr(<<>>), JNum(0), JNum(12),
    JNull, JBool(TRUE), JList(<<>>), JList(<<JStr(FixIt), JNum(1)>>) }

ItemLists(n) == UNION {[1..k -> ItemValues] : k \in 0..n}

ItemDocuments(n) == {JDict(<<Pair(ActionItemsKey, JList(l))>>) : l \in ItemLists(n)}

OtherDocuments ==
  { JDict(<<>>),
    JDict(<<Pair(<<"i","t","e","m","s">>, JList(<<JStr(FixIt)>>))>>),
    JDict(<<Pair(ActionItemsKey, JStr(FixIt))>>),
    JDict(<<Pair(ActionItemsKey, JNull)>>),
    JDict(<<Pair(ActionItemsKey, JNum(3))>>),
    JDict(<<Pair(ActionItemsKey, JDict(<<Pair(<<"a">>, JStr(FixIt))>>))>>),
    JDict(<<Pair(ActionItemsKey, JNum(3)), Pair(ActionItemsKey, JList(<<JStr(FixIt)>>))>>),
    JList(<<JStr(FixIt)>>),
    JStr(FixIt),
    JNum(40),
    JBool(FALSE),
    JNull }

Rendered == {json_dumps(d) : d \in ItemDocuments(MaxItems) \cup OtherDocuments}

RenderedSmall == {json_dumps(d) : d \in ItemDocuments(1) \cup OtherDocuments}

Fenced ==
  {<<"U+0060","U+0060","U+0060","j","s","o","n","\n">> \o r \o <<"\n","U+0060","U+0060","U+0060">> : r \in RenderedSmall}
    \cup {<<"U+0060","U+0060","U+0060","\n">> \o r : r \in RenderedSmall}

Padded == {<<" ","\n">> \o r \o <<"\n"," ">> : r \in RenderedSmall}

Truncated == UNION {{SubSeq(r, 1, k) : k \in 0..Len(r)} : r \in RenderedSmall}

PlainTexts ==
  { <<"-"," ","F","i","x"," ","i","t","\n","\n","#"," ","n","o","t","e","s","\n"," "," ",
      "*"," ","s","h","i","p"," ","i","t"," "," ","\n">>,
    <<"1","\n","2","\n","3","\n","4","\n","5","\n","6","\n","#"," ","7","\n","8","\n","9",
      "\n","1","0","\n","1","1","\n","1","2","\n","1","3">>,
    <<"#"," ","n","o","t","h","i","n","g"," ","t","o"," ","d","o">>,
    <<"[","\"","F","i","x"," ","i","t","\"",",","]">>,
    <<"{","\"","a","c","t","i","o","n","_","i","t","e","m","s","\"",":"," ","[","\"","F",
      "i","x","\n","i","t","\"","]","}">>,
    <<"{","\"","a","c","t","i","o","n","_","i","t","e","m","s","\"",":"," ","[","0","1","]",
      "}">>,
    <<"{","\"","a","c","t","i","o","n","_","i","t","e","m","s","\""," ","[","\"","F","i",
      "x"," ","i","t","\"","]","}">>,
    <<"{","\"","a","c","t","i","o","n","_","i","t","e","m","s","\"",":"," ","[","\"","F",
      "i","x"," ","i","t","\"","]","}"," ","d","o","n","e">> }

Contents == Rendered \cup Fenced \cup Padded \cup Truncated \cup PlainTexts

ChatResponses == {ResponseNoMessage, ResponseNoContent} \cup {Response(c) : c \in Contents}

\* the errors chat may raise: the server cannot be reached, the model is
\* missing, or the client library fails on what the server sent
ChatErrors == {"ConnectionError", "ResponseError", "AttributeError"}

LLMInputs == {<<>>, <<" ">>, <<"\n"," ","\n">>, FixIt, Scenario1Text}

(***************************************************************************)
(* The persistence layer (week2/app/db.py).  The database is a record of   *)
(* the two tables, each a sequence of rows in insertion order, and of      *)
(* sqlite_sequence, the largest id each AUTOINCREMENT table has assigned.  *)
(* The column created_at is left out.  Every function opens a connection   *)
(* and runs in a transaction of its own: `with connection` commits when    *)
(* the block ends and rolls back when it raises, so a call that fails      *)
(* leaves the database as it found it.  `fault` says that sqlite3 raises   *)
(* in the call (the file cannot be opened, is locked, the disk is full).   *)
(***************************************************************************)
\* Optional[int]: None, or an integer
None == <<>>

Some(n) == <<n>>

\* the database after init_db on a new file
EmptyDb ==
  [notes |-> <<>>, action_items |-> <<>>, sqlite_sequence |-> [notes |-> 0, action_items |-> 0]]

\* what a function of the layer does: the exception it raises ("none" when
\* it returns), the message of the exception, the database it leaves and
\* the value it returns
DbRaise(d, e, msg) == [exc |-> e, msg |-> msg, db |-> d, value |-> <<>>]

DbReturn(d, v) == [exc |-> "none", msg |-> "", db |-> d, value |-> v]

\* insert_note(content)
insert_note(d, content, fault) ==
  IF content = <<>> \/ strip(content) = <<>>
  THEN DbRaise(d, "ValueError", "Note content cannot be empty")
  ELSE IF fault THEN DbRaise(d, "RuntimeError", "Failed to insert note")
  ELSE LET note_id == d.sqlite_sequence.notes + 1
       IN DbReturn([d EXCEPT !.notes = Append(@, [id |-> note_id, content |-> content]),
                             !.sqlite_sequence.notes = note_id],
                   note_id)

\* get_note(note_id): the row, or None
get_note(d, note_id, fault) ==
  IF fault THEN DbRaise(d, "RuntimeError", "Failed to get note")
  ELSE DbReturn(d, SelectSeq(d.notes, LAMBDA r : r.id = note_id))

\* the loop of insert_action_items that trims the items and stores them
\* without skipping the blank ones
RECURSIVE insert_rows_no_skip(_, _, _, _)
insert_rows_no_skip(d, items, note_id, ids) ==
  IF items = <<>> THEN DbReturn(d, ids)
  ELSE LET id == d.sqlite_sequence.action_items + 1
           row == [id |-> id, note_id |-> note_id, text |-> strip(Head(items)), done |-> 0]
       IN insert_rows_no_skip([d EXCEPT !.action_items = Append(@, row),
                                        !.sqlite_sequence.action_items = id],
                              Tail(items), note_id, Append(ids, id))

\* for item in items: ... of insert_action_items
RECURSIVE insert_rows(_, _, _, _)
insert_rows(d, items, note_id, ids) ==
  IF items = <<>> THEN DbReturn(d, ids)
  ELSE IF Head(items) = <<>> \/ strip(Head(items)) = <<>>
  THEN insert_rows(d, Tail(items), note_id, ids)
  ELSE LET id == d.sqlite_sequence.action_items + 1
           row == [id |-> id, note_id |-> note_id, text |-> strip(Head(items)), done |-> 0]
       IN insert_rows([d EXCEPT !.action_items = Append(@, row),
                                !.sqlite_sequence.action_items = id],
                      Tail(items), note_id, Append(ids, id))

\* insert_action_items(items, note_id): a failure at any point of the block
\* rolls back the rows inserted so far
insert_action_items(d, items, note_id, fault) ==
  IF items = <<>> THEN DbReturn(d, <<>>)
  ELSE IF fault THEN DbRaise(d, "RuntimeError", "Failed to insert action items")
  ELSE insert_rows(d, items, note_id, <<>>)

\* ORDER BY id DESC
RECURSIVE reversed(_)
reversed(rows) == IF rows = <<>> THEN <<>> ELSE Append(reversed(Tail(rows)), Head(rows))

\* list_action_items(note_id)
list_action_items(d, note_id, fault) ==
  IF fault THEN DbRaise(d, "RuntimeError", "Failed to list action items")
  ELSE IF note_id = None THEN DbReturn(d, reversed(d.action_items))
  ELSE DbReturn(d, reversed(SelectSeq(d.action_items, LAMBDA r : r.note_id = note_id)))

\* get_action_items_by_ids(item_ids)
get_action_items_by_ids(d, item_ids, fault) ==
  IF item_ids = <<>> THEN DbReturn(d, <<>>)
  ELSE IF fault THEN DbRaise(d, "RuntimeError", "Failed to get action items by IDs")
  ELSE DbReturn(d, SelectSeq(d.action_items,
                             LAMBDA r : \E i \in 1..Len(item_ids) : item_ids[i] = r.id))

\* an UPDATE that has lost its WHERE clause
mark_action_item_done_every_row(d, action_item_id, done, fault) ==
  IF fault THEN DbRaise(d, "RuntimeError", "Failed to update action item")
  ELSE DbReturn([d EXCEPT !.action_items =
                   [i \in 1..Len(@) |-> [@[i] EXCEPT !.done = IF done THEN 1 ELSE 0]]],
                None)

\* mark_action_item_done(action_item_id, done)
mark_action_item_done(d, action_item_id, done, fault) ==
  IF fault THEN DbRaise(d, "RuntimeError", "Failed to update action item")
  ELSE IF \A i \in 1..Len(d.action_items) : d.action_items[i].id # action_item_id
  THEN DbRaise(d, "ValueError", "Action item with id {action_item_id} not found")
  ELSE DbReturn([d EXCEPT !.action_items =
                   [i \in 1..Len(@) |->
                      IF @[i].id = action_item_id
                      THEN [@[i] EXCEPT !.done = IF done THEN 1 ELSE 0]
                      ELSE @[i]]],
                None)

\* before the first request
NoRequest == [op |-> "none"]

NoReply == [status |-> 0]

(***************************************************************************)
(* extract_action_items(text) as a state machine.                          *)
(***************************************************************************)
Init ==
  /\ text \in Inputs
  /\ pc = "lines"
  /\ extracted = <<>>
  /\ usedFallback = FALSE
  /\ result = <<>>
  /\ llm_text = <<>>
  /\ llm_pc = "idle"
  /\ chat_calls = 0
  /\ response = NoResponse
  /\ exc = "none"
  /\ llm_result = <<>>
  /\ llm_outcome = "idle"
  /\ db = EmptyDb
  /\ api_request = NoRequest
  /\ api_response = NoReply
  /\ k_pc = "idle"
  /\ idx = 0
  /\ outputs = <<>>
  /\ returned = "none"

\* for raw_line in lines: ...
LinePass ==
  /\ pc = "lines"
  /\ extracted' = line_pass(splitlines(text))
  /\ pc' = "fallback"
  /\ UNCHANGED <<text, usedFallback, result, lvars, avars, kvars>>

\* the fallback running whatever the line pass produced
FallbackAlways ==
  /\ pc = "fallback"
  /\ extracted' = extracted \o sentence_pass(split_sentences(strip(text)))
  /\ usedFallback' = TRUE
  /\ pc' = "dedup"
  /\ UNCHANGED <<text, result, lvars, avars, kvars>>

\* if not extracted: ...
Fallback ==
  /\ pc = "fallback"
  /\ extracted = <<>>
  /\ extracted' = sentence_pass(split_sentences(strip(text)))
  /\ usedFallback' = TRUE
  /\ pc' = "dedup"
  /\ UNCHANGED <<text, result, lvars, avars, kvars>>

SkipFallback ==
  /\ pc = "fallback"
  /\ extracted # <<>>
  /\ pc' = "dedup"
  /\ UNCHANGED <<text, extracted, usedFallback, result, lvars, avars, kvars>>

\* for item in extracted: ...; return unique
Return ==
  /\ pc = "dedup"
  /\ result' = deduplicate(extracted)
  /\ pc' = "done"
  /\ UNCHANGED <<text, extracted, usedFallback, lvars, avars, kvars>>

Next == LinePass \/ Fallback \/ SkipFallback \/ Return

Spec == Init /\ [][Next]_vars

(***************************************************************************)
(* extract_action_items_llm(text) as a state machine.                      *)
(***************************************************************************)
InitLLM ==
  /\ llm_text \in LLMInputs
  /\ llm_pc = "start"
  /\ chat_calls = 0
  /\ response = NoResponse
  /\ exc = "none"
  /\ llm_result = <<>>
  /\ llm_outcome = "running"
  /\ text = <<>>
  /\ pc = "idle"
  /\ extracted = <<>>
  /\ usedFallback = FALSE
  /\ result = <<>>
  /\ db = EmptyDb
  /\ api_request = NoRequest
  /\ api_response = NoReply
  /\ k_pc = "idle"
  /\ idx = 0
  /\ outputs = <<>>
  /\ returned = "none"

\* if not text or not text.strip(): return []
ReturnEmpty ==
  /\ llm_pc = "start"
  /\ is_empty_input(llm_text)
  /\ llm_result' = <<>>
  /\ llm_outcome' = "returned"
  /\ llm_pc' = "done"
  /\ UNCHANGED <<llm_text, chat_calls, response, exc, xvars, avars, kvars>>

\* response = chat(...), chat raising: response stays None
ChatRaises ==
  /\ llm_pc = "start"
  /\ ~is_empty_input(llm_text)
  /\ \E e \in ChatErrors : exc' = e
  /\ chat_calls' = chat_calls + 1
  /\ llm_pc' = "except"
  /\ UNCHANGED <<llm_text, response, llm_result, llm_outcome, xvars, avars, kvars>>

\* response = chat(...), chat returning
ChatReturns ==
  /\ llm_pc = "start"
  /\ ~is_empty_input(llm_text)
  /\ \E r \in ChatResponses : response' = r
  /\ chat_calls' = chat_calls + 1
  /\ llm_pc' = "try"
  /\ UNCHANGED <<llm_text, exc, llm_result, llm_outcome, xvars, avars, kvars>>

\* the rest of the try block
TryBody ==
  /\ llm_pc = "try"
  /\ LET o == try_body(response)
     IN IF o.exc = "none"
        THEN /\ llm_result' = o.value
             /\ llm_outcome' = "returned"
             /\ llm_pc' = "done"
             /\ UNCHANGED exc
        ELSE /\ exc' = o.exc
             /\ llm_pc' = "except"
             /\ UNCHANGED <<llm_result, llm_outcome>>
  /\ UNCHANGED <<llm_text, chat_calls, response, xvars, avars, kvars>>

\* except (json.JSONDecodeError, KeyError, AttributeError): ...
ExceptDecode ==
  /\ llm_pc = "except"
  /\ first_clause_catches(exc)
  /\ llm_result' = fallback_items(response)
  /\ llm_outcome' = "returned"
  /\ llm_pc' = "done"
  /\ UNCHANGED <<llm_text, chat_calls, response, exc, xvars, avars, kvars>>

\* except Exception as e: ...; an error no clause catches leaves the function
ExceptOther ==
  /\ llm_pc = "except"
  /\ ~first_clause_catches(exc)
  /\ llm_outcome' = IF second_clause_catches(exc) THEN "returned" ELSE "raised"
  /\ llm_result' = <<>>
  /\ llm_pc' = "done"
  /\ UNCHANGED <<llm_text, chat_calls, response, exc, xvars, avars, kvars>>

NextLLM == ReturnEmpty \/ ChatRaises \/ ChatReturns \/ TryBody \/ ExceptDecode \/ ExceptOther

SpecLLM == InitLLM /\ [][NextLLM]_vars

(***************************************************************************)
(* The two extractors as functions of their argument, composed of the      *)
(* steps of the state machines above.                                      *)
(***************************************************************************)
\* extract_action_items(text)
extract_action_items(t) ==
  LET from_lines == line_pass(splitlines(t))
  IN deduplicate(IF from_lines = <<>> THEN sentence_pass(split_sentences(strip(t)))
                 ELSE from_lines)

\* what chat does in a call: it raises, or returns a response
ChatRaise(e) == [exc |-> e, response |-> NoResponse]

ChatReturn(r) == [exc |-> "none", response |-> r]

\* extract_action_items_llm(text), chat doing c
extract_action_items_llm(t, c) ==
  IF is_empty_input(t) THEN Returned(<<>>)
  ELSE LET o == IF c.exc # "none" THEN Raise(c.exc) ELSE try_body(c.response)
       IN IF o.exc = "none" THEN o
          ELSE IF first_clause_catches(o.exc) THEN Returned(fallback_items(c.response))
          ELSE IF second_clause_catches(o.exc) THEN Returned(<<>>)
          ELSE Raise(o.exc)

(***************************************************************************)
(* The requests of the model: their texts, what chat does while one is     *)
(* handled, and the lists of a direct call of insert_action_items.         *)
(***************************************************************************)
FixItShip == <<"-"," ","F","i","x"," ","i","t","\n","-"," ","s","h","i","p">>

EmptyCheckboxThenFixIt == <<"-"," ","["," ","]","\n","-"," ","F","i","x"," ","i","t">>

RequestTexts == {FixItShip, EmptyCheckboxThenFixIt, <<" ">>}

NoteContents == {FixItShip, <<" ">>}

Ship == <<"s","h","i","p">>

\* what chat does while a request is handled
RequestChats ==
  { ChatReturn(Response(json_dumps(JDict(<<Pair(ActionItemsKey,
                                               JList(<<JStr(<<" ">>), JStr(FixIt)>>))>>)))),
    ChatReturn(Response(json_dumps(JDict(<<Pair(ActionItemsKey,
                                               JList(<<JStr(FixIt), JStr(Ship)>>))>>)))),
    ChatRaise("ConnectionError") }

\* the items of a direct call of insert_action_items
InsertItems == {FixIt, <<" ">> \o Ship \o <<" ">>, <<>>, <<" ">>}

InsertLists == UNION {[1..k -> InsertItems] : k \in 0..MaxInsert}

NoteIds == {None, Some(1)}

\* the extractors on the texts of the requests, computed once
ExtractedItems == [t \in RequestTexts |-> extract_action_items(t)]

ExtractedItemsLLM ==
  [t \in RequestTexts |-> [c \in RequestChats |-> extract_action_items_llm(t, c)]]

(***************************************************************************)
(* The routes (week2/app/routers/action_items.py, notes.py).  A route is   *)
(* a function of the database and the request; it yields the database it   *)
(* leaves and the response.  `fault` names the call of the persistence     *)
(* layer in which sqlite3 raises, "none" when the database works.          *)
(***************************************************************************)
Routed(d, resp) == [db |-> d, response |-> resp]

\* raise HTTPException(status_code=..., detail=...): the detail is the
\* message of the route followed by the message of the exception
HTTPException(status_code, failure, msg) ==
  [status |-> status_code, detail |-> <<failure, msg>>]

ActionItemResponse(id, note_id, txt, done) ==
  [id |-> id, note_id |-> note_id, text |-> txt, done |-> done]

ExtractResponse(note_id, items) == [status |-> 200, note_id |-> note_id, items |-> items]

MarkDoneResponse(id, done) == [status |-> 200, id |-> id, done |-> done]

NoteResponse(row) == [status |-> 201, id |-> row.id, content |-> row.content]

\* [ActionItemResponse(...) for item_id, item_text in zip(ids, items)]
zip_items(ids, items, note_id) ==
  [i \in 1..(IF Len(ids) < Len(items) THEN Len(ids) ELSE Len(items)) |->
     ActionItemResponse(ids[i], note_id, items[i], FALSE)]

\* the body of extract and of extract_llm (the same statements; `items` is
\* what the extractor of the route did, `failure` the message of the route)
extract_route(d, request, items, fault, failure) ==
  LET n == IF request.save_note THEN insert_note(d, request.text, fault = "insert_note")
           ELSE DbReturn(d, 0)
      note_id == IF request.save_note THEN Some(n.value) ELSE None
  IN IF n.exc # "none" THEN Routed(n.db, HTTPException(500, failure, n.msg))
     ELSE IF items.exc # "none" THEN Routed(n.db, HTTPException(500, failure, items.exc))
     ELSE LET a == insert_action_items(n.db, items.value, note_id,
                                       fault = "insert_action_items")
          IN IF a.exc # "none" THEN Routed(a.db, HTTPException(500, failure, a.msg))
             ELSE IF a.value = <<>> THEN Routed(a.db, ExtractResponse(note_id, <<>>))
             ELSE LET g == get_action_items_by_ids(a.db, a.value,
                                                   fault = "get_action_items_by_ids")
                  IN IF g.exc # "none" THEN Routed(g.db, HTTPException(500, failure, g.msg))
                     ELSE Routed(g.db, ExtractResponse(note_id,
                                         zip_items(a.value, items.value, note_id)))

\* POST /action-items/extract
extract(d, request, fault) ==
  extract_route(d, request, Returned(ExtractedItems[request.text]), fault,
                "Failed to extract action items")

\* POST /action-items/extract-llm
extract_llm(d, request, c, fault) ==
  extract_route(d, request, ExtractedItemsLLM[request.text][c], fault,
                "Failed to extract action items with LLM")

\* GET /action-items
list_all(d, note_id, fault) ==
  LET rows == list_action_items(d, note_id, fault = "list_action_items")
  IN IF rows.exc # "none"
     THEN Routed(rows.db, HTTPException(500, "Failed to retrieve action items", rows.msg))
     ELSE Routed(rows.db,
                 [status |-> 200,
                  items |-> [i \in 1..Len(rows.value) |->
                               ActionItemResponse(rows.value[i].id, rows.value[i].note_id,
                                                  rows.value[i].text, rows.value[i].done = 1)]])

\* POST /action-items/{action_item_id}/done
mark_done(d, action_item_id, request, fault) ==
  LET all_items == list_action_items(d, None, fault = "list_action_items")
  IN IF all_items.exc # "none"
     THEN Routed(all_items.db, HTTPException(500, "Failed to update action item", all_items.msg))
     ELSE IF ~\E i \in 1..Len(all_items.value) : all_items.value[i].id = action_item_id
     THEN Routed(all_items.db, HTTPException(404, "Action item with id {action_item_id} not found", ""))
     ELSE LET m == mark_action_item_done(all_items.db, action_item_id, request.done,
                                         fault = "mark_action_item_done")
          IN IF m.exc # "none"
             THEN Routed(m.db, HTTPException(500, "Failed to update action item", m.msg))
             ELSE Routed(m.db, MarkDoneResponse(action_item_id, request.done))

\* POST /notes
create_note(d, note, fault) ==
  LET n == insert_note(d, note.content, fault = "insert_note")
  IN IF n.exc # "none" THEN Routed(n.db, HTTPException(500, "Failed to create note", n.msg))
     ELSE LET db_note == get_note(n.db, n.value, fault = "get_note")
          IN IF db_note.exc # "none"
             THEN Routed(db_note.db, HTTPException(500, "Failed to create note", db_note.msg))
             ELSE IF db_note.value = <<>>
             THEN Routed(db_note.db,
                         HTTPException(500, "Failed to create note",
                                       "Note was created but could not be retrieved"))
             ELSE Routed(db_note.db, NoteResponse(db_note.value[1]))

(***************************************************************************)
(* The service as a state machine: the database, the last request and its  *)
(* response.  A request is handled in one step; the requests are the       *)
(* routes that write or list action items and POST /notes.  The body of a  *)
(* request has passed the validation of its schema: a text and a content   *)
(* are not empty.  A second specification calls db.insert_action_items on  *)
(* its own, with lists the extractors do not produce.                      *)
(***************************************************************************)
\* the calls of the persistence layer a route makes, each of which may fail
ExtractFaults == {"none", "insert_note", "insert_action_items", "get_action_items_by_ids"}

MarkDoneFaults == {"none", "list_action_items", "mark_action_item_done"}

WithinBounds(d) == Len(d.notes) <= MaxNotes /\ Len(d.action_items) <= MaxRows

InitAPI ==
  /\ db = EmptyDb
  /\ api_request = NoRequest
  /\ api_response = NoReply
  /\ text = <<>>
  /\ pc = "idle"
  /\ extracted = <<>>
  /\ usedFallback = FALSE
  /\ result = <<>>
  /\ llm_text = <<>>
  /\ llm_pc = "idle"
  /\ chat_calls = 0
  /\ response = NoResponse
  /\ exc = "none"
  /\ llm_result = <<>>
  /\ llm_outcome = "idle"
  /\ k_pc = "idle"
  /\ idx = 0
  /\ outputs = <<>>
  /\ returned = "none"

\* a request is handled: the database and the response are those of the
\* route; a request that would store more than the bounds allow is left out
Handled(request, r) ==
  /\ WithinBounds(r.db)
  /\ db' = r.db
  /\ api_request' = request
  /\ api_response' = r.response

Extract ==
  /\ \E t \in RequestTexts, save_note \in BOOLEAN, fault \in ExtractFaults :
       LET request == [op |-> "extract", text |-> t, save_note |-> save_note]
       IN Handled(request, extract(db, request, fault))
  /\ UNCHANGED <<xvars, lvars, kvars>>

ExtractLLM ==
  /\ \E t \in RequestTexts, save_note \in BOOLEAN, c \in RequestChats,
        fault \in ExtractFaults :
       LET request == [op |-> "extract_llm", text |-> t, save_note |-> save_note]
       IN Handled(request, extract_llm(db, request, c, fault))
  /\ UNCHANGED <<xvars, lvars, kvars>>

ListAll ==
  /\ \E note_id \in NoteIds, fault \in {"none", "list_action_items"} :
       Handled([op |-> "list_all", note_id |-> note_id], list_all(db, note_id, fault))
  /\ UNCHANGED <<xvars, lvars, kvars>>

MarkDone ==
  /\ \E action_item_id \in 1..(MaxRows + 1), done \in BOOLEAN, fault \in MarkDoneFaults :
       LET request == [op |-> "mark_done", id |-> action_item_id, done |-> done]
       IN Handled(request, mark_done(db, action_item_id, request, fault))
  /\ UNCHANGED <<xvars, lvars, kvars>>

CreateNote ==
  /\ \E content \in NoteContents, fault \in {"none", "insert_note", "get_note"} :
       LET request == [op |-> "create_note", content |-> content]
       IN Handled(request, create_note(db, request, fault))
  /\ UNCHANGED <<xvars, lvars, kvars>>

\* the outcome of a call of the persistence layer, as a response
Called(r) == Routed(r.db, [status |-> 0, exc |-> r.exc, ids |-> r.value])

\* ids = db.insert_action_items(items, note_id=note_id), called on its own
InsertActionItems ==
  /\ \E items \in InsertLists, note_id \in NoteIds, fault \in BOOLEAN :
       Handled([op |-> "insert_action_items", items |-> items, note_id |-> note_id],
               Called(insert_action_items(db, items, note_id, fault)))
  /\ UNCHANGED <<xvars, lvars, kvars>>

NextAPI == Extract \/ ExtractLLM \/ ListAll \/ MarkDone \/ CreateNote

SpecAPI == InitAPI /\ [][NextAPI]_vars

\* the persistence layer called on its own
NextDb == InsertActionItems

SpecDb == InitAPI /\ [][NextDb]_vars

(***************************************************************************)
(* The prompt test of week1/k_shot_prompting.py: test_your_prompt as a     *)
(* state machine.  A step is one iteration of the loop: one call of chat   *)
(* and the comparison of its output.  `outputs` is what the model has      *)
(* answered so far, `idx` the number of calls made.                        *)
(***************************************************************************)
NUM_RUNS_TIMES == 5

EXPECTED_OUTPUT == <<"s","u","t","a","t","s","p","t","t","h">>

\* what the model may answer: the expected word, bare or with whitespace
\* around it, other words, nothing
ModelOutputs ==
  { EXPECTED_OUTPUT,
    <<" ">> \o EXPECTED_OUTPUT \o <<"\n">>,
    <<"s","u","t","a","t","s","p","t","t","h",".">>,
    <<"h","t","t","p","s","t","a","t","u","s">>,
    <<"S","u","t","a","t","s","p","t","t","h">>,
    <<>> }

\* output_text.strip() == EXPECTED_OUTPUT.strip(), output_text being
\* response.message.content.strip()
output_matches(content) == strip(strip(content)) = strip(EXPECTED_OUTPUT)

InitKShot ==
  /\ k_pc = "loop"
  /\ idx = 0
  /\ outputs = <<>>
  /\ returned = "none"
  /\ db = EmptyDb
  /\ api_request = NoRequest
  /\ api_response = NoReply
  /\ text = <<>>
  /\ pc = "idle"
  /\ extracted = <<>>
  /\ usedFallback = FALSE
  /\ result = <<>>
  /\ llm_text = <<>>
  /\ llm_pc = "idle"
  /\ chat_calls = 0
  /\ response = NoResponse
  /\ exc = "none"
  /\ llm_result = <<>>
  /\ llm_outcome = "idle"

\* an iteration whose output is compared and goes on to the next one
\* whatever the output is
RunGoesOn ==
  /\ k_pc = "loop"
  /\ idx < NUM_RUNS_TIMES
  /\ \E content \in ModelOutputs : outputs' = Append(outputs, content)
  /\ idx' = idx + 1
  /\ UNCHANGED <<k_pc, returned, xvars, lvars, avars>>

\* an iteration of `for idx in range(NUM_RUNS_TIMES)`: chat returns
Run ==
  /\ k_pc = "loop"
  /\ idx < NUM_RUNS_TIMES
  /\ idx' = idx + 1
  /\ \E content \in ModelOutputs :
       /\ outputs' = Append(outputs, content)
       /\ IF output_matches(content)
          THEN k_pc' = "done" /\ returned' = "True"
          ELSE UNCHANGED <<k_pc, returned>>
  /\ UNCHANGED <<xvars, lvars, avars>>

\* an iteration in which chat raises, or answers without a message or a
\* content: the exception leaves the function
RunRaises ==
  /\ k_pc = "loop"
  /\ idx < NUM_RUNS_TIMES
  /\ idx' = idx + 1
  /\ k_pc' = "done"
  /\ returned' = "raised"
  /\ UNCHANGED <<outputs, xvars, lvars, avars>>

\* the loop is over: return False
ReturnFalse ==
  /\ k_pc = "loop"
  /\ idx = NUM_RUNS_TIMES
  /\ k_pc' = "done"
  /\ returned' = "False"
  /\ UNCHANGED <<idx, outputs, xvars, lvars, avars>>

NextKShot == Run \/ RunRaises \/ ReturnFalse

SpecKShot == InitKShot /\ [][NextKShot]_vars

(***************************************************************************)
(* Definitions used to state the properties of extract_action_items.       *)
(***************************************************************************)
Range(s) == {s[i] : i \in 1..Len(s)}

Lines == splitlines(text)

\* the lines the classifier accepts, by their index
ActionableLines == {i \in 1..Len(Lines) : is_action_line(strip(Lines[i]))}

Blank(s) == \A j \in 1..Len(s) : s[j] \in Whitespace

EqualIgnoringCase(s, t) == lower(s) = lower(t)

\* C1: for every input text, every item of the list extract_action_items
\* returns is non-empty after trimming.
C1_ItemsNonEmpty ==
  pc = "done" => \A i \in 1..Len(result) : ~Blank(result[i])

Scenario2Stripped ==
  << <<"R","e","v","i","e","w"," ","t","h","e"," ","c","o","d","e">>,
     <<"D","e","p","l","o","y"," ","t","o"," ","p","r","o","d","u","c","t","i","o","n">>,
     <<"U","p","d","a","t","e"," ","d","o","c","u","m","e","n","t","a","t","i","o","n">> >>

Scenario2Kept ==
  << <<"T","O","D","O",":"," ","R","e","v","i","e","w"," ","t","h","e"," ","c","o","d","e">>,
     <<"A","C","T","I","O","N",":"," ","D","e","p","l","o","y"," ","t","o"," ","p","r","o",
       "d","u","c","t","i","o","n">>,
     <<"N","E","X","T",":"," ","U","p","d","a","t","e"," ","d","o","c","u","m","e","n","t",
       "a","t","i","o","n">> >>

\* the lines of the text that start, ignoring case, with a keyword prefix
KeywordLines ==
  {i \in 1..Len(Lines) :
     \E k \in 1..Len(KEYWORD_PREFIXES) : startswith(lower(strip(Lines[i])), KEYWORD_PREFIXES[k])}

\* C2 as stated: the text of scenario 2 yields the three texts that follow
\* the keywords, and a line that starts with a keyword prefix yields the text
\* that follows the prefix.
C2_KeywordPrefixRemoved ==
  pc = "done" =>
    /\ text = Scenario2Text => result = Scenario2Stripped
    /\ \A i \in KeywordLines : \E k \in 1..Len(KEYWORD_PREFIXES) :
         LET s == strip(Lines[i])
         IN /\ startswith(lower(s), KEYWORD_PREFIXES[k])
            /\ LET rest == strip(SubSeq(s, Len(KEYWORD_PREFIXES[k]) + 1, Len(s)))
               IN rest # <<>> =>
                    \E r \in 1..Len(result) : EqualIgnoringCase(result[r], rest)

\* C2 as amended: the text of scenario 2 yields its three lines with the
\* keywords kept, and a line that starts with a keyword prefix yields the
\* whole trimmed line: the item of the line pass is the trimmed line itself,
\* and the returned list holds it up to the case of an earlier duplicate.
C2_KeywordPrefixKept ==
  /\ pc = "fallback" => \A i \in KeywordLines : strip(Lines[i]) \in Range(extracted)
  /\ pc = "done" =>
       /\ text = Scenario2Text => result = Scenario2Kept
       /\ \A i \in KeywordLines :
            \E r \in 1..Len(result) : EqualIgnoringCase(result[r], strip(Lines[i]))

C2_Witness == pc = "done" /\ text = Scenario2Text /\ result = Scenario2Kept

Scenario3Create == <<"W","e"," ","n","e","e","d"," ","t","o"," ","c","r","e","a","t","e",
                     " ","a"," ","n","e","w"," ","f","e","a","t","u","r","e",".">>

Scenario3Implement == <<"P","l","e","a","s","e"," ","i","m","p","l","e","m","e","n","t"," ",
                        "t","h","e"," ","l","o","g","i","n"," ","p","a","g","e",".">>

Scenario3Narration == <<"T","h","i","s"," ","i","s"," ","j","u","s","t"," ","n","a","r","r",
                        "a","t","i","o","n",".">>

\* the first run of word characters of s, lower-cased, is an imperative starter
StartsWithImperative(s) ==
  \E a \in 1..Len(s), b \in 1..Len(s) :
    /\ a <= b
    /\ \A j \in 1..(a - 1) : s[j] \notin WordChars
    /\ \A j \in a..b : s[j] \in WordChars
    /\ b = Len(s) \/ s[b + 1] \notin WordChars
    /\ lower(SubSeq(s, a, b)) \in imperative_starters

\* C3 as stated: on the text of scenario 3 the fallback runs and the output
\* holds the "create" and the "implement" sentence and not the narration.
C3_FallbackKeepsCreateImplement ==
  (pc = "done" /\ text = Scenario3Text) =>
    /\ usedFallback
    /\ Scenario3Create \in Range(result)
    /\ Scenario3Implement \in Range(result)
    /\ Scenario3Narration \notin Range(result)

\* C3 as amended: on the text of scenario 3 the fallback runs and the output
\* is empty, no sentence of it having an imperative starter as its first
\* word ("We", "Please", "This"); whenever the fallback runs, every output
\* item has an imperative starter as its first word.
C3_FallbackFirstWordOnly ==
  pc = "done" =>
    /\ text = Scenario3Text => usedFallback /\ result = <<>>
    /\ usedFallback => \A i \in 1..Len(result) : StartsWithImperative(result[i])

C3_Witness == pc = "done" /\ text = Scenario3Text /\ usedFallback /\ result = <<>>

\* C4: if at least one line is classified actionable the fallback does not
\* run and every output item is the cleaned text of an actionable line; the
\* fallback runs only when the line pass produced no item.
C4_LinesTakePrecedence ==
  pc \in {"dedup", "done"} =>
    /\ usedFallback <=> ActionableLines = {}
    /\ ActionableLines # {} =>
         \A item \in Range(extracted) \cup Range(result) :
           \E i \in ActionableLines : item = clean_line(strip(Lines[i]))

\* an actionable line beside a line the fallback would have kept
C4_Witness ==
  /\ pc = "done"
  /\ ActionableLines # {}
  /\ \E i \in 1..Len(Lines) :
       /\ i \notin ActionableLines
       /\ StartsWithImperative(Lines[i])
       /\ \A r \in 1..Len(result) : ~contains(result[r], strip(Lines[i]))

\* the indices of `extracted` whose item equals no earlier item, ignoring case
FirstOccurrences ==
  {i \in 1..Len(extracted) :
     \A j \in 1..(i - 1) : ~EqualIgnoringCase(extracted[j], extracted[i])}

\* C5: the output is the list of extracted items without every item that
\* equals, ignoring case, an earlier one: the k-th output item is the k-th
\* first occurrence, in its own case, so no two output items are equal
\* ignoring case; scenario 4 yields the one item "task one".
C5_DedupFirstOccurrences ==
  pc = "done" =>
    /\ Len(result) = Cardinality(FirstOccurrences)
    /\ \A i \in FirstOccurrences :
         result[Cardinality({j \in FirstOccurrences : j <= i})] = extracted[i]
    /\ \A a, b \in 1..Len(result) : a # b => ~EqualIgnoringCase(result[a], result[b])
    /\ text = Scenario4Text => result = << <<"t","a","s","k"," ","o","n","e">> >>

\* a duplicate in another case was dropped between two kept items
C5_Witness ==
  /\ pc = "done"
  /\ Len(result) >= 2
  /\ \E i, j \in 1..Len(extracted) :
       /\ i < j
       /\ extracted[i] # extracted[j]
       /\ EqualIgnoringCase(extracted[i], extracted[j])
       /\ \E k \in (j + 1)..Len(extracted) : k \in FirstOccurrences

Scenario1Expected ==
  << <<"S","e","t"," ","u","p"," ","d","a","t","a","b","a","s","e">>,
     <<"i","m","p","l","e","m","e","n","t"," ","A","P","I"," ","e","x","t","r","a","c","t",
       " ","e","n","d","p","o","i","n","t">>,
     <<"W","r","i","t","e"," ","t","e","s","t","s">> >>

\* the leading markers of a list entry: a bullet or a number, then a space,
\* then possibly an empty checkbox and a space
Markers ==
  LET bare == { <<"-"," ">>, <<"*"," ">>, <<"1","."," ">>, <<"2","."," ">>, <<"1","1","."," ">> }
  IN bare \cup {m \o <<"["," ","]"," ">> : m \in bare}

\* a text with no markup at its start: it starts with neither whitespace,
\* nor a checkbox token, nor another marker
Bare(s) ==
  /\ s # <<>>
  /\ s[1] \notin Whitespace
  /\ ~startswith(s, CheckboxToken)
  /\ ~startswith(s, TodoToken)

\* C6: a line that is a marker followed by a bare text yields that text, in
\* the order of the lines; the lines of no class yield nothing; the lines of
\* scenario 1 yield exactly its three marked texts.
C6_MarkedLinesBareText ==
  /\ pc = "fallback" =>
       /\ Len(extracted) = Cardinality(ActionableLines)
       /\ \A i \in 1..Len(Lines) : \A m \in Markers :
            LET s == strip(Lines[i])
                body == SubSeq(s, Len(m) + 1, Len(s))
            IN (startswith(s, m) /\ Bare(body)) =>
                 /\ i \in ActionableLines
                 /\ extracted[Cardinality({j \in ActionableLines : j <= i})] = strip(body)
  /\ pc = "done" =>
       /\ text = Scenario1Text => result = Scenario1Expected
       /\ text = MixedCaseText =>
            result = << <<"F","i","x"," ","i","t">>, <<"[","T","O","D","O","]"," ","s","h","i","p">>, <<"n","e","x","t",":"," ","f","i",
                                                         "x"," ","i","t">> >>

C6_Witness == pc = "done" /\ text = Scenario1Text /\ result = Scenario1Expected

\* C7: every operation of the function is total on strings, so no step of
\* the model fails; for the empty string and for a text of whitespace only
\* neither the line pass nor the fallback yields an item, and the empty list
\* is returned.
C7_BlankInputEmptyOutput ==
  Blank(text) =>
    /\ extracted = <<>>
    /\ pc = "done" => usedFallback /\ result = <<>>

C7_Witness == pc = "done" /\ text # <<>> /\ Blank(text) /\ usedFallback /\ result = <<>>

(***************************************************************************)
(* Definitions used to state the properties of extract_action_items_llm.   *)
(***************************************************************************)
\* the text of the response, when chat returned one
HasResponseText == response.some /\ response.has_message /\ response.has_content

\* the lines of the response text that are neither blank nor a "#" line
KeptLines ==
  LET lines == split_newline(response.content)
  IN {i \in 1..Len(lines) :
        \E j \in 1..Len(lines[i]) :
          /\ lines[i][j] \notin Whitespace
          /\ \A k \in 1..(j - 1) : lines[i][k] \in Whitespace
          /\ lines[i][j] # "#"}

\* the result is the line split of the response text: its k-th item is the
\* k-th kept line, trimmed, for the first FALLBACK_LIMIT kept lines
IsLineSplit ==
  /\ Len(llm_result) =
       IF Cardinality(KeptLines) < FALLBACK_LIMIT THEN Cardinality(KeptLines) ELSE FALLBACK_LIMIT
  /\ \A i \in KeptLines :
       LET k == Cardinality({j \in KeptLines : j <= i})
       IN k <= FALLBACK_LIMIT => llm_result[k] = strip(split_newline(response.content)[i])

\* what json.loads makes of the response text
Parsed == json_loads(strip_code_fence(strip(response.content)))

ParsedActionItems == dict_get(Parsed.val, ActionItemsKey, JNull)

\* the response text is a JSON object whose action_items is a list of strings
WellFormed ==
  /\ HasResponseText
  /\ Parsed.ok
  /\ Parsed.val.t = "dict"
  /\ ParsedActionItems.t = "list"
  /\ \A i \in 1..Len(ParsedActionItems.xs) : ParsedActionItems.xs[i].t = "str"

\* C8: extract_action_items_llm never raises to its caller: whatever chat
\* does, the call ends by returning a list.
C8_NeverRaises ==
  /\ llm_pc = "done" => llm_outcome = "returned"
  /\ llm_outcome # "raised"

\* the model is missing: chat raised a ResponseError, and [] came back
C8_Witness ==
  llm_pc = "done" /\ exc = "ResponseError" /\ llm_outcome = "returned" /\ llm_result = <<>>

\* C9 as stated: whenever chat was called and no well-formed list of strings
\* was obtained, the result is the line split of the response text, and the
\* empty list only if there is no response text.
C9_AnyFailureLineSplit ==
  (llm_pc = "done" /\ chat_calls = 1 /\ ~WellFormed) =>
    IF HasResponseText THEN IsLineSplit ELSE llm_result = <<>>

\* C9 as amended: a response text that is not JSON, or is JSON but not an
\* object, yields the line split of the text (its trimmed lines that are
\* neither blank nor start with "#", at most FALLBACK_LIMIT of them); a JSON
\* object whose action_items is missing or not a list yields the empty list
\* and one whose action_items is a list yields one item per truthy element,
\* both without a line split; no response text yields the empty list.
C9_DecodeFailureLineSplit ==
  (llm_pc = "done" /\ chat_calls = 1) =>
    IF ~HasResponseText THEN llm_result = <<>>
    ELSE IF ~Parsed.ok \/ Parsed.val.t # "dict" THEN IsLineSplit
    ELSE IF ParsedActionItems.t # "list" THEN llm_result = <<>>
    ELSE Len(llm_result) =
           Cardinality({i \in 1..Len(ParsedActionItems.xs) : truthy(ParsedActionItems.xs[i])})

\* a text of more than FALLBACK_LIMIT lines that is not JSON
C9_Witness ==
  /\ llm_pc = "done"
  /\ exc = "JSONDecodeError"
  /\ Cardinality(KeptLines) > FALLBACK_LIMIT
  /\ Len(llm_result) = FALLBACK_LIMIT

\* C10: for an empty or whitespace-only text chat is never called, and the
\* empty list is returned.
C10_BlankInputNoChat ==
  (llm_pc # "idle" /\ Blank(llm_text)) =>
    /\ chat_calls = 0
    /\ response = NoResponse
    /\ llm_pc = "done" => llm_result = <<>> /\ llm_outcome = "returned"

C10_Witness ==
  llm_pc = "done" /\ llm_text # <<>> /\ Blank(llm_text) /\ chat_calls = 0 /\ llm_result = <<>>

\* C11: every element of the list extract_action_items_llm returns is
\* non-empty after trimming, whatever the response of the model, a
\* whitespace-only string or a non-string value in action_items included.
C11_LLMItemsNonBlank ==
  (llm_pc = "done" /\ llm_outcome = "returned") =>
    \A i \in 1..Len(llm_result) : ~Blank(llm_result[i])

(***************************************************************************)
(* Definitions used to state the properties of the service.                *)
(***************************************************************************)
\* the last request went to one of the two extraction routes
ExtractRequested(request) == request.op \in {"extract", "extract_llm"}

\* the stored action items with an id
StoredWithId(d, id) == {j \in 1..Len(d.action_items) : d.action_items[j].id = id}

\* C12: every entry (id, text) of the response of POST /action-items/extract
\* and of POST /action-items/extract-llm is a stored action item: the row
\* with that id holds exactly that text, whatever the extracted items are,
\* blank items which the persistence layer skips included.
C12_ResponsePairsTextWithId ==
  (ExtractRequested(api_request) /\ api_response.status = 200) =>
    \A i \in 1..Len(api_response.items) :
      /\ StoredWithId(db, api_response.items[i].id) # {}
      /\ \A j \in StoredWithId(db, api_response.items[i].id) :
           db.action_items[j].text = api_response.items[i].text

\* the items of a list that are not blank, in their order
NonBlankItems(items) == SelectSeq(items, LAMBDA s : ~Blank(s))

\* C13: a call of insert_action_items that returns has stored one row per
\* non-blank item, after the rows there were and in the order of the items,
\* holding the trimmed item, the note id of the call and done = 0; it
\* returns the ids of these rows in that order; the ids are pairwise
\* distinct and none is the id of an earlier row; the blank items raise
\* nothing and store nothing; the empty list returns the empty list and
\* leaves the database as it was.
C13_InsertReturnsIdsOfNonBlank ==
  [][(api_request'.op = "insert_action_items" /\ api_response'.exc = "none") =>
       LET items == api_request'.items
           kept == NonBlankItems(items)
           ids == api_response'.ids
           before == Len(db.action_items)
       IN /\ Len(ids) = Len(kept)
          /\ Len(db'.action_items) = before + Len(kept)
          /\ SubSeq(db'.action_items, 1, before) = db.action_items
          /\ db'.notes = db.notes
          /\ \A k \in 1..Len(kept) :
               LET row == db'.action_items[before + k]
               IN /\ row.id = ids[k]
                  /\ row.text = strip(kept[k])
                  /\ row.note_id = api_request'.note_id
                  /\ row.done = 0
          /\ \A k, l \in 1..Len(ids) : k # l => ids[k] # ids[l]
          /\ \A k \in 1..Len(ids) : StoredWithId(db, ids[k]) = {}
          /\ items = <<>> => ids = <<>> /\ db' = db]_vars

\* a blank item skipped and a padded one stored trimmed under the second id
C13_Witness ==
  /\ api_request.op = "insert_action_items"
  /\ api_request.items = << <<" ">>, <<" ">> \o Ship \o <<" ">> >>
  /\ api_request.note_id = Some(1)
  /\ api_response.ids = <<2>>
  /\ Len(db.action_items) = 2
  /\ db.action_items[2] = [id |-> 2, note_id |-> Some(1), text |-> Ship, done |-> 0]

(***************************************************************************)
(* Definitions used to state the properties of test_your_prompt.           *)
(***************************************************************************)
\* the responses whose trimmed text is the expected output
MatchingOutputs == {i \in 1..Len(outputs) : strip(outputs[i]) = EXPECTED_OUTPUT}

\* C14: test_your_prompt calls chat at most NUM_RUNS_TIMES times; a response
\* whose trimmed text is the expected output is the last one asked for, and
\* True is returned on it; True is returned only if a response matched;
\* False is returned only after NUM_RUNS_TIMES responses none of which
\* matched.
C14_PromptTestStopsAtFirstMatch ==
  /\ idx <= NUM_RUNS_TIMES
  /\ idx = Len(outputs) + (IF returned = "raised" THEN 1 ELSE 0)
  /\ \A i \in MatchingOutputs : i = Len(outputs) /\ idx = i /\ returned = "True"
  /\ returned = "True" => MatchingOutputs # {}
  /\ returned = "False" =>
       /\ idx = NUM_RUNS_TIMES
       /\ Len(outputs) = NUM_RUNS_TIMES
       /\ MatchingOutputs = {}
  /\ k_pc = "done" <=> returned \in {"True", "False", "raised"}

\* two wrong answers, then the expected word with whitespace around it
C14_Witness ==
  /\ k_pc = "done"
  /\ returned = "True"
  /\ idx = 3
  /\ outputs[3] = <<" ">> \o EXPECTED_OUTPUT \o <<"\n">>
  /\ outputs[1] # outputs[2]

(***************************************************************************)
(* Definitions used to state the order of the cleaning steps.              *)
(***************************************************************************)
\* a trimmed line without its leading bullet or number marker: the marker
\* is one bullet character, or digits and a full stop, and whitespace
\* follows it; what is left is trimmed
WithoutMarker(s) ==
  LET ends == {n \in 1..(Len(s) - 1) :
                 /\ s[n + 1] \in Whitespace
                 /\ \/ n = 1 /\ s[1] \in BulletChars
                    \/ n >= 2 /\ s[n] = "." /\ \A k \in 1..(n - 1) : s[k] \in Digits}
  IN IF ends = {} THEN s ELSE strip(SubSeq(s, (CHOOSE n \in ends : TRUE) + 2, Len(s)))

\* a text without the token it starts with, trimmed; the text itself when
\* it does not start with the token, letter for letter
WithoutLeading(s, token) ==
  IF Len(s) >= Len(token) /\ \A k \in 1..Len(token) : s[k] = token[k]
  THEN strip(SubSeq(s, Len(token) + 1, Len(s)))
  ELSE s

\* the item the k-th actionable line has yielded
ItemOfLine(i) == extracted[Cardinality({j \in ActionableLines : j <= i})]

\* a line that holds a checkbox token in some case
HoldsCheckboxToken(s) == contains(lower(s), CheckboxToken) \/ contains(lower(s), TodoToken)

\* C15: the item of an actionable line is its trimmed text, in its own
\* case, without the leading marker, then without a leading "[ ]", then
\* without a leading lowercase "[todo]", trimmed after each step.  A line
\* that holds a checkbox token in any case is actionable; one that starts
\* with "[todo]" in another case than lowercase keeps the token, and a line
\* with neither a marker nor a checkbox token at its start is its own item.
C15_CleaningOrderAndCase ==
  pc = "fallback" =>
    /\ Len(extracted) = Cardinality(ActionableLines)
    /\ \A i \in 1..Len(Lines) :
         LET s == strip(Lines[i])
         IN /\ HoldsCheckboxToken(s) => i \in ActionableLines
            /\ i \in ActionableLines =>
                 /\ ItemOfLine(i) =
                      WithoutLeading(WithoutLeading(WithoutMarker(s), CheckboxToken), TodoToken)
                 /\ (startswith(lower(s), TodoToken) /\ ~startswith(s, TodoToken)) =>
                      ItemOfLine(i) = s
                 /\ (WithoutMarker(s) = s /\ ~startswith(s, CheckboxToken)
                       /\ ~startswith(s, TodoToken)) =>
                      ItemOfLine(i) = s

\* a line that starts with "[TODO]" and holds "[ ]" further on is its own item
C15_Witness ==
  /\ pc = "fallback"
  /\ text = <<"[","T","O","D","O","]","["," ","]"," ","F","i","x">>
  /\ extracted = <<text>>

(***************************************************************************)
(* Definitions used to state the effect of the routes on the database.     *)
(***************************************************************************)
\* the response says that a call of the persistence layer failed in sqlite3
DatabaseFailed(reply) ==
  /\ reply.status = 500
  /\ reply.detail[2] \in {"Failed to insert note", "Failed to get note",
                          "Failed to insert action items",
                          "Failed to get action items by IDs",
                          "Failed to list action items", "Failed to update action item"}

\* C16: POST /action-items/{id}/done, after any requests, changes nothing
\* but the done flag of the action item with that id: the notes, the number
\* of action items, and the id, text and note_id of every action item stay,
\* and so does every action item with another id.  While the database
\* works, an id that is not stored is answered 404 and no row changes, and
\* an id that is stored is answered 200 and its done flag is the requested
\* one.
C16_MarkDoneFrame ==
  [][api_request'.op = "mark_done" =>
       LET id == api_request'.id
           flag == IF api_request'.done THEN 1 ELSE 0
       IN /\ db'.notes = db.notes
          /\ Len(db'.action_items) = Len(db.action_items)
          /\ \A j \in 1..Len(db.action_items) :
               /\ db'.action_items[j].id = db.action_items[j].id
               /\ db'.action_items[j].text = db.action_items[j].text
               /\ db'.action_items[j].note_id = db.action_items[j].note_id
               /\ db.action_items[j].id # id => db'.action_items[j] = db.action_items[j]
               /\ db'.action_items[j].done \in {db.action_items[j].done, flag}
          /\ ~DatabaseFailed(api_response') =>
               IF StoredWithId(db, id) = {}
               THEN api_response'.status = 404 /\ db'.action_items = db.action_items
               ELSE /\ api_response' = [status |-> 200, id |-> id, done |-> api_request'.done]
                    /\ \A j \in StoredWithId(db, id) : db'.action_items[j].done = flag]_vars

\* the first of two action items of a saved note has been marked done
C16_Witness ==
  /\ api_request = [op |-> "mark_done", id |-> 1, done |-> TRUE]
  /\ api_response.status = 200
  /\ Len(db.notes) = 1
  /\ Len(db.action_items) = 2
  /\ db.action_items[1] = [id |-> 1, note_id |-> Some(1), text |-> FixIt, done |-> 1]
  /\ db.action_items[2].done = 0

\* C17: an extraction request answered with an error leaves the notes and
\* the action items as they were: with save_note set, neither the note nor
\* an action item of the request stays when a later step of the request
\* fails.
C17_FailedExtractLeavesStore ==
  [][(ExtractRequested(api_request') /\ api_response'.status >= 400) =>
       db'.notes = db.notes /\ db'.action_items = db.action_items]_vars

====
